---- MODULE Spec2Model ----
(***************************************************************************)
(* Model of preflight.py: the preflight probe that reports the Kubernetes  *)
(* control-plane version and the GPU software stack (driver, CUDA, NCCL).  *)
(*                                                                         *)
(* Text is a sequence of tokens.  A token is one character class member    *)
(* (a digit, a dot, a blank, a newline, another character) or one of the   *)
(* literal markers the regular expressions of the source look for; the     *)
(* concrete string is the concatenation of the tokens.                     *)
(***************************************************************************)
EXTENDS Naturals, Sequences, FiniteSets

\* ------------------------------------------------------------------ bounds

\* longest command output (in tokens) drawn when a probe is exercised alone
MaxLen == 3
\* longest output (in tokens) of one grep|awk header-field extraction
MaxFieldLen == 1
\* largest len(argv) tried
MaxArgc == 3

\* ------------------------------------------------------- program constants

\* subprocess.run(..., timeout=10)
TimeoutSecs == 10

\* ------------------------------------------------------------------- text

\* Python's None: a value no text is equal to
None == <<"<None>">>

KernelModule == "Kernel Module"
CudaVersionMarker == "CUDA Version"
ReleaseMarker == "release"

BaseAlphabet == {"5", ".", " ", "\n", "x"}

\* a byte that is not valid UTF-8 (0xff), as a command may print it
BadByte == "0xff"

\* whitespace, as str.strip() and the regex class \s see it
IsSpace(c) == c \in {" ", "\n"}

\* the regex class [\d.]
IsNumChar(c) == c \in {"5", "."}

\* all texts over alphabet A of length at most n
RECURSIVE TextsUpTo(_, _)
TextsUpTo(A, n) ==
  IF n = 0 THEN {<<>>}
  ELSE LET S == TextsUpTo(A, n - 1)
       IN  S \cup {Append(t, c) : t \in {s \in S : Len(s) = n - 1}, c \in A}

\* Python truthiness of an Optional[str]: neither None nor ""
Truthy(v) == v # None /\ v # <<>>

RECURSIVE LStrip(_)
LStrip(t) == IF t # <<>> /\ IsSpace(Head(t)) THEN LStrip(Tail(t)) ELSE t

RECURSIVE RStrip(_)
RStrip(t) ==
  IF t # <<>> /\ IsSpace(t[Len(t)]) THEN RStrip(SubSeq(t, 1, Len(t) - 1)) ELSE t

\* str.strip()
Strip(t) == RStrip(LStrip(t))

\* first index at or after i whose token is not whitespace (Len(t)+1 if none):
\* where the greedy \s+ stops
RECURSIVE SpaceEnd(_, _)
SpaceEnd(t, i) == IF i <= Len(t) /\ IsSpace(t[i]) THEN SpaceEnd(t, i + 1) ELSE i

\* first index at or after i whose token is not in [\d.]: where the greedy
\* [\d.]+ stops
RECURSIVE NumEnd(_, _)
NumEnd(t, i) == IF i <= Len(t) /\ IsNumChar(t[i]) THEN NumEnd(t, i + 1) ELSE i

\* the pattern  <marker>\s+([\d.]+)  matches at position i
MatchAt(marker, t, i) ==
  /\ t[i] = marker
  /\ SpaceEnd(t, i + 1) > i + 1
  /\ NumEnd(t, SpaceEnd(t, i + 1)) > SpaceEnd(t, i + 1)

\* SearchGroup with a fault: group(0), the whole match, instead of group(1)
SearchGroup_WholeMatch(marker, t) ==
  LET hits == {i \in 1..Len(t) : MatchAt(marker, t, i)}
  IN  IF hits = {} THEN None
      ELSE LET i == CHOOSE k \in hits : \A j \in hits : k <= j
           IN  SubSeq(t, i, NumEnd(t, SpaceEnd(t, i + 1)) - 1)

\* re.search(marker + r"\s+([\d.]+)", t) followed by
\* "if match: return match.group(1)": group 1 of the leftmost match, or None
SearchGroup(marker, t) ==
  LET hits == {i \in 1..Len(t) : MatchAt(marker, t, i)}
  IN  IF hits = {} THEN None
      ELSE LET i == CHOOSE k \in hits : \A j \in hits : k <= j
               b == SpaceEnd(t, i + 1)
           IN  SubSeq(t, b, NumEnd(t, b) - 1)

\* ---------------------------------------------------------- subprocess.run

\* what one external command does: whether the shell (/bin/sh) is there and can
\* be executed ("ok", "missing", "not executable"), how long the command ran,
\* its exit status, the bytes of its combined output
OkOutcome(t) == [shell |-> "ok", secs |-> 1, exit |-> 0, stdout |-> t]

\* the three failures the except clause names: no shell to start the command,
\* still running when the time bound is over (what it printed so far is kept
\* as bytes), a nonzero exit status
FailedOutcomes ==
  {[shell |-> "missing", secs |-> 1, exit |-> 0, stdout |-> <<>>],
   [shell |-> "ok", secs |-> TimeoutSecs + 1, exit |-> 0, stdout |-> <<BadByte>>],
   [shell |-> "ok", secs |-> 1, exit |-> 1, stdout |-> <<"5">>]}

\* the endings the except clause does not name: a shell that is there but
\* cannot be executed, and output that text=True cannot decode (whatever the
\* exit status: the output is decoded before the status is looked at)
RaisingOutcomes ==
  {[shell |-> "not executable", secs |-> 1, exit |-> 0, stdout |-> <<>>],
   [shell |-> "ok", secs |-> 1, exit |-> 0, stdout |-> <<BadByte>>],
   [shell |-> "ok", secs |-> 1, exit |-> 0, stdout |-> <<" ", "5", BadByte>>],
   [shell |-> "ok", secs |-> 1, exit |-> 1, stdout |-> <<BadByte>>]}

\* the outcomes of a command whose decodable output on success is one of T
Outcomes(T) == {OkOutcome(t) : t \in T} \cup FailedOutcomes \cup RaisingOutcomes

\* the bytes t are valid UTF-8
Decodable(t) == \A k \in 1..Len(t) : t[k] # BadByte

\* subprocess.run(command, shell=True, check=True, text=True, timeout=10, ...):
\* how the call ends.  The child is started first, then its output is read
\* until it ends or the time is over, the output is decoded, and last the
\* exit status is checked.
subprocess_run(o) ==
  IF o.shell = "missing" THEN "FileNotFoundError"
  ELSE IF o.shell = "not executable" THEN "PermissionError"
  ELSE IF o.secs > TimeoutSecs THEN "TimeoutExpired"
  ELSE IF ~Decodable(o.stdout) THEN "UnicodeDecodeError"
  ELSE IF o.exit # 0 THEN "CalledProcessError"
  ELSE "completed"

\* the exceptions run_command catches
RunCommandCaught ==
  {"CalledProcessError", "TimeoutExpired", "FileNotFoundError"}

\* run_command(command): the value returned, or the exception left uncaught
run_command(o) ==
  LET how == subprocess_run(o)
  IN  IF how = "completed" THEN [raised |-> FALSE, value |-> Strip(o.stdout)]
      ELSE IF how \in RunCommandCaught THEN [raised |-> FALSE, value |-> None]
      ELSE [raised |-> TRUE, value |-> None]

\* ------------------------------------------------------------------ state

VARIABLES
  pc,          \* the statement the process is at
  argc,        \* len(argv) as main receives it
  subprocess_ld_path,   \* FLAGS.subprocess_ld_path (None when not given)
  KUBERNETES_INSTALLED,
  exists,      \* os.path.exists, per candidate header path
  env0,        \* os.environ as it was at startup
  environ,     \* os.environ
  out,         \* the lines printed to standard output, in order
  log,         \* what the process did to its surroundings, in order
  last,        \* the most recent subprocess.run call and how it ended
  frame,       \* the local variables of the probe being executed
  ret,         \* the value the most recent probe call returned
  k8s,         \* how the calls of the Kubernetes client ended ("" : not made)
  version,     \* main's local variable version
  versions     \* detect_gpu_libraries' dict, in insertion order

inputs == <<argc, subprocess_ld_path, KUBERNETES_INSTALLED, exists, env0>>
vars == <<pc, argc, subprocess_ld_path, KUBERNETES_INSTALLED, exists, env0, environ, out, log, last,
          frame, ret, k8s, version, versions>>

SmiCmd == "nvidia-smi --query-gpu=driver_version --format=csv,noheader"
ProcCmd == "cat /proc/driver/nvidia/version"
CudaFileCmd == "cat /usr/local/cuda/version.txt"
NvccCmd == "nvcc --version"
GrepMajorCmd == "grep '#define NCCL_MAJOR' | awk '{print $3}'"
GrepMinorCmd == "grep '#define NCCL_MINOR' | awk '{print $3}'"
GrepPatchCmd == "grep '#define NCCL_PATCH' | awk '{print $3}'"

\* nccl_h_paths
nccl_h_paths == <<"/usr/include/nccl.h", "/usr/local/cuda/include/nccl.h">>

\* a probe's frame before any of its locals is bound
EmptyFrame ==
  [version |-> None, version_text |-> None, major |-> None, minor |-> None,
   patch |-> None, i |-> 0]

NoCall == [cmd |-> "", path |-> "", outcome |-> OkOutcome(<<>>)]

\* SpawnEnv with a fault: a copy of the environment taken at startup
SpawnEnv_Startup == env0

\* the environment a subprocess is given: env=os.environ, as it is at the call
SpawnEnv == environ

\* an entry of log: a subprocess spawned (with the environment it is given),
\* a path tested, a variable assigned, a Kubernetes client call
Event(kind, what, path) ==
  [ev |-> kind, what |-> what, path |-> path, env |-> SpawnEnv]

\* the bookkeeping of one run_command(cmd) call that ended as o
Spawn(cmd, path, o) ==
  /\ log' = Append(log, Event("spawn", cmd, path))
  /\ last' = [cmd |-> cmd, path |-> path, outcome |-> o]

\* an exception nobody catches unwinds main: the process dies with a traceback
Uncaught ==
  /\ pc' = "crashed"
  /\ UNCHANGED <<frame, ret>>

\* ----------------------------------------------- get_nvidia_driver_version

\* a decision point of a probe: the function returns value, or goes on
Return(v) == [returns |-> TRUE, value |-> v]
GoOn == [returns |-> FALSE, value |-> None]

\* "if version: return version" after the query tool
DriverQueryStep(v) == IF Truthy(v) THEN Return(v) ELSE GoOn

\* the kernel-module fallback: what the function returns after reading
\* /proc/driver/nvidia/version as version_text
DriverFallbackReturn(version_text) ==
  IF Truthy(version_text) THEN SearchGroup(KernelModule, version_text) ELSE None

\* version = run_command("nvidia-smi ..."); if version: return version
get_nvidia_driver_version_query(T) ==
  /\ pc = "driver"
  /\ \E o \in Outcomes(T) :
       LET r == run_command(o) IN
       /\ Spawn(SmiCmd, "", o)
       /\ IF r.raised THEN Uncaught
          ELSE /\ frame' = [EmptyFrame EXCEPT !.version = r.value]
               /\ IF DriverQueryStep(r.value).returns
                  THEN pc' = "driver_ret" /\ ret' = DriverQueryStep(r.value).value
                  ELSE pc' = "driver_proc" /\ UNCHANGED ret
  /\ UNCHANGED <<inputs, environ, out, k8s, version, versions>>

\* version_text = run_command("cat /proc/driver/nvidia/version"); the search
\* for "Kernel Module\s+([\d.]+)"; return match.group(1) or None
get_nvidia_driver_version_fallback(T) ==
  /\ pc = "driver_proc"
  /\ \E o \in Outcomes(T) :
       LET r == run_command(o) IN
       /\ Spawn(ProcCmd, "", o)
       /\ IF r.raised THEN Uncaught
          ELSE /\ frame' = [frame EXCEPT !.version_text = r.value]
               /\ ret' = DriverFallbackReturn(r.value)
               /\ pc' = "driver_ret"
  /\ UNCHANGED <<inputs, environ, out, k8s, version, versions>>

\* ---------------------------------------------------------- get_cuda_version

\* the version-file strategy: "if version_text:", the search, "if match:
\* return match.group(1)"
CudaFileStep(version_text) ==
  IF Truthy(version_text) /\ SearchGroup(CudaVersionMarker, version_text) # None
  THEN Return(SearchGroup(CudaVersionMarker, version_text))
  ELSE GoOn

\* the compiler strategy: what the function returns after "nvcc --version"
CudaNvccReturn(version_text) ==
  IF Truthy(version_text) THEN SearchGroup(ReleaseMarker, version_text) ELSE None

\* version_text = run_command("cat /usr/local/cuda/version.txt") and the
\* search for "CUDA Version\s+([\d.]+)"
get_cuda_version_file(T) ==
  /\ pc = "cuda"
  /\ \E o \in Outcomes(T) :
       LET r == run_command(o) IN
       /\ Spawn(CudaFileCmd, "", o)
       /\ IF r.raised THEN Uncaught
          ELSE /\ frame' = [EmptyFrame EXCEPT !.version_text = r.value]
               /\ IF CudaFileStep(r.value).returns
                  THEN pc' = "cuda_ret" /\ ret' = CudaFileStep(r.value).value
                  ELSE pc' = "cuda_nvcc" /\ UNCHANGED ret
  /\ UNCHANGED <<inputs, environ, out, k8s, version, versions>>

\* version_text = run_command("nvcc --version"), the search for
\* "release\s+([\d.]+)", and the final return None
get_cuda_version_nvcc(T) ==
  /\ pc = "cuda_nvcc"
  /\ \E o \in Outcomes(T) :
       LET r == run_command(o) IN
       /\ Spawn(NvccCmd, "", o)
       /\ IF r.raised THEN Uncaught
          ELSE /\ frame' = [frame EXCEPT !.version_text = r.value]
               /\ ret' = CudaNvccReturn(r.value)
               /\ pc' = "cuda_ret"
  /\ UNCHANGED <<inputs, environ, out, k8s, version, versions>>

\* ---------------------------------------------------------- get_nccl_version

\* NcclEnvStep with a fault: the variable is read but never returned
NcclEnvStep_Ignored(nccl_version) == [returns |-> FALSE, value |-> None]

\* NcclHeaderStep with a fault: the elif branch is missing, PATCH is required
NcclHeaderStep_NeedsPatch(major, minor, patch) ==
  IF Truthy(major) /\ Truthy(minor) /\ Truthy(patch)
  THEN [returns |-> TRUE, value |-> major \o <<".">> \o minor \o <<".">> \o patch]
  ELSE [returns |-> FALSE, value |-> None]

\* "if nccl_version: return nccl_version"
NcclEnvStep(nccl_version) ==
  IF Truthy(nccl_version) THEN Return(nccl_version) ELSE GoOn

\* the if/elif after the three extractions from one header file: a return,
\* or the loop goes on to the next candidate path
NcclHeaderStep(major, minor, patch) ==
  IF Truthy(major) /\ Truthy(minor) /\ Truthy(patch)
  THEN Return(major \o <<".">> \o minor \o <<".">> \o patch)
  ELSE IF Truthy(major) /\ Truthy(minor)
  THEN Return(major \o <<".">> \o minor)
  ELSE GoOn

\* nccl_version = os.environ.get("NCCL_VERSION"); if nccl_version: return it
get_nccl_version_env ==
  /\ pc = "nccl"
  /\ frame' = [EmptyFrame EXCEPT !.i = 1]
  /\ IF NcclEnvStep(environ.NCCL_VERSION).returns
     THEN pc' = "nccl_ret" /\ ret' = NcclEnvStep(environ.NCCL_VERSION).value
     ELSE pc' = "nccl_loop" /\ UNCHANGED ret
  /\ UNCHANGED <<inputs, environ, out, log, last, k8s, version, versions>>

\* one turn of "for nccl_h_path in nccl_h_paths: if os.path.exists(...)"
get_nccl_version_exists ==
  /\ pc = "nccl_loop"
  /\ frame.i <= Len(nccl_h_paths)
  /\ log' = Append(log, Event("exists", "os.path.exists", nccl_h_paths[frame.i]))
  /\ IF exists[nccl_h_paths[frame.i]]
     THEN pc' = "nccl_major" /\ UNCHANGED frame
     ELSE pc' = "nccl_loop" /\ frame' = [frame EXCEPT !.i = @ + 1]
  /\ UNCHANGED <<inputs, environ, out, last, ret, k8s, version, versions>>

\* the loop is over: return None
get_nccl_version_exhausted ==
  /\ pc = "nccl_loop"
  /\ frame.i > Len(nccl_h_paths)
  /\ ret' = None
  /\ pc' = "nccl_ret"
  /\ UNCHANGED <<inputs, environ, out, log, last, frame, k8s, version, versions>>

\* major = run_command("grep '#define NCCL_MAJOR' <path> | awk ...")
get_nccl_version_major(T) ==
  /\ pc = "nccl_major"
  /\ \E o \in Outcomes(T) :
       LET r == run_command(o) IN
       /\ Spawn(GrepMajorCmd, nccl_h_paths[frame.i], o)
       /\ IF r.raised THEN Uncaught
          ELSE /\ frame' = [frame EXCEPT !.major = r.value]
               /\ pc' = "nccl_minor"
               /\ UNCHANGED ret
  /\ UNCHANGED <<inputs, environ, out, k8s, version, versions>>

\* minor = run_command("grep '#define NCCL_MINOR' <path> | awk ...")
get_nccl_version_minor(T) ==
  /\ pc = "nccl_minor"
  /\ \E o \in Outcomes(T) :
       LET r == run_command(o) IN
       /\ Spawn(GrepMinorCmd, nccl_h_paths[frame.i], o)
       /\ IF r.raised THEN Uncaught
          ELSE /\ frame' = [frame EXCEPT !.minor = r.value]
               /\ pc' = "nccl_patch"
               /\ UNCHANGED ret
  /\ UNCHANGED <<inputs, environ, out, k8s, version, versions>>

\* patch = run_command("grep '#define NCCL_PATCH' <path> | awk ..."), then
\* the if/elif that returns or lets the loop go on
get_nccl_version_patch(T) ==
  /\ pc = "nccl_patch"
  /\ \E o \in Outcomes(T) :
       LET r == run_command(o)
           d == NcclHeaderStep(frame.major, frame.minor, r.value)
       IN
       /\ Spawn(GrepPatchCmd, nccl_h_paths[frame.i], o)
       /\ IF r.raised THEN Uncaught
          ELSE IF d.returns
          THEN /\ frame' = [frame EXCEPT !.patch = r.value]
               /\ ret' = d.value
               /\ pc' = "nccl_ret"
          ELSE /\ frame' = [frame EXCEPT !.patch = r.value, !.i = @ + 1]
               /\ pc' = "nccl_loop"
               /\ UNCHANGED ret
  /\ UNCHANGED <<inputs, environ, out, k8s, version, versions>>

\* ----------------------------------------------------------- get_gke_version

\* GkeCaught with a fault: the final "except Exception" is missing
GkeCaught_Narrow == {"ConfigException", "ApiException"}

\* the exception classes the try statement of get_gke_version handles
\* ("Exception" stands for every exception that is neither of the other two)
GkeCaught == {"ConfigException", "ApiException", "Exception"}

\* how config.load_incluster_config() can end
LoadConfigOutcomes == {"ok", "ConfigException", "Exception"}

\* how client.VersionApi().get_code() can end
GetCodeOutcomes == {"ok", "ApiException", "Exception"}

\* version_info.git_version as the server reports it
GitVersions == {<<"v1.28.3-gke.1200">>, <<>>}

\* an exception e raised inside the try statement: every handler logs and
\* returns None; an exception no handler names leaves the function
GkeExcept(e) ==
  IF e \in GkeCaught
  THEN pc' = "gke_ret" /\ ret' = None /\ UNCHANGED frame
  ELSE Uncaught

\* "if not KUBERNETES_INSTALLED: ... return None"
get_gke_version_not_installed ==
  /\ pc = "gke"
  /\ ~KUBERNETES_INSTALLED
  /\ ret' = None
  /\ pc' = "gke_ret"
  /\ UNCHANGED <<inputs, environ, out, log, last, frame, k8s, version, versions>>

\* config.load_incluster_config()
get_gke_version_load_config ==
  /\ pc = "gke"
  /\ KUBERNETES_INSTALLED
  /\ log' = Append(log, Event("k8s", "load_incluster_config", ""))
  /\ \E e \in LoadConfigOutcomes :
       /\ k8s' = [k8s EXCEPT !.load = e]
       /\ IF e = "ok" THEN pc' = "gke_get" /\ UNCHANGED <<ret, frame>>
          ELSE GkeExcept(e)
  /\ UNCHANGED <<inputs, environ, out, last, version, versions>>

\* api = client.VersionApi(); version_info = api.get_code();
\* return version_info.git_version
get_gke_version_get_code ==
  /\ pc = "gke_get"
  /\ log' = Append(log, Event("k8s", "get_code", ""))
  /\ \E e \in GetCodeOutcomes, v \in GitVersions :
       /\ k8s' = [k8s EXCEPT !.get = e, !.git_version = IF e = "ok" THEN v ELSE None]
       /\ IF e = "ok"
          THEN pc' = "gke_ret" /\ ret' = v /\ UNCHANGED frame
          ELSE GkeExcept(e)
  /\ UNCHANGED <<inputs, environ, out, last, version, versions>>

\* ------------------------------------------------------ detect_gpu_libraries

NotFound == <<"Not found">>

\* x or "Not found"
OrNotFound(v) == IF Truthy(v) THEN v ELSE NotFound

\* a printed line
Line(tag, key, val) == [tag |-> tag, key |-> key, val |-> val]

\* versions["NVIDIA Driver"] = get_nvidia_driver_version() or "Not found"
detect_gpu_libraries_driver ==
  /\ pc = "driver_ret"
  /\ versions' = Append(versions, [lib |-> "NVIDIA Driver", version |-> OrNotFound(ret)])
  /\ pc' = "cuda"
  /\ UNCHANGED <<inputs, environ, out, log, last, frame, ret, k8s, version>>

\* versions["CUDA"] = get_cuda_version() or "Not found"
detect_gpu_libraries_cuda ==
  /\ pc = "cuda_ret"
  /\ versions' = Append(versions, [lib |-> "CUDA", version |-> OrNotFound(ret)])
  /\ pc' = "nccl"
  /\ UNCHANGED <<inputs, environ, out, log, last, frame, ret, k8s, version>>

\* versions["NCCL"] = get_nccl_version() or "Not found"
detect_gpu_libraries_nccl ==
  /\ pc = "nccl_ret"
  /\ versions' = Append(versions, [lib |-> "NCCL", version |-> OrNotFound(ret)])
  /\ pc' = "gpu_print"
  /\ UNCHANGED <<inputs, environ, out, log, last, frame, ret, k8s, version>>

\* print("\nGPU Library Versions:") and one "- lib: version" line per entry
GpuBlock(d) ==
  <<Line("gpu_header", "GPU Library Versions:", <<>>)>>
  \o [k \in 1..Len(d) |-> Line("lib", d[k].lib, d[k].version)]

detect_gpu_libraries_print ==
  /\ pc = "gpu_print"
  /\ out' = out \o GpuBlock(versions)
  /\ pc' = "done"
  /\ UNCHANGED <<inputs, environ, log, last, frame, ret, k8s, version, versions>>

\* ----------------------------------------------------------------------- main

\* the variables of os.environ the model follows.  os.environ is a mapping
\* that keeps its keys in the order the process received them (a key
\* assigned later goes to the end): the field order of an environment lists
\* the variables that are set, in that order.
EnvKeys == {"LD_LIBRARY_PATH", "NCCL_VERSION"}

\* the variables that are set in an environment
KeysSet(env) == {key \in EnvKeys : env[key] # None}

\* the orders in which the keys S may stand
Orders(S) ==
  {o \in [1..Cardinality(S) -> S] :
     \A i, j \in 1..Cardinality(S) : i # j => o[i] # o[j]}

\* os.environ[key] = value
SetItem(env, key, value) ==
  [env EXCEPT ![key] = value,
              !.order = IF env[key] # None THEN @ ELSE Append(@, key)]

\* for key, value in os.environ.items(): print(f"{key}={value}")
RECURSIVE EnvLines(_, _)
EnvLines(env, k) ==
  IF k > Len(env.order) THEN <<>>
  ELSE <<Line("env", env.order[k], env[env.order[k]])>> \o EnvLines(env, k + 1)

\* the three prints of the environment dump
EnvDump(env) ==
  <<Line("env_header", "--- Environment Variables ---", <<>>)>>
  \o EnvLines(env, 1)
  \o <<Line("env_footer", "---------------------------", <<>>)>>

\* len(argv) > 1
TooManyArguments(n) == n > 1

\* "if FLAGS.subprocess_ld_path:"
LdPathGiven(f) == Truthy(f)

\* raise app.UsageError("Too many command-line arguments.")
main_usage_error ==
  /\ pc = "main"
  /\ TooManyArguments(argc)
  /\ pc' = "usage_error"
  /\ UNCHANGED <<inputs, environ, out, log, last, frame, ret, k8s, version, versions>>

\* the environment dump
main_env_dump ==
  /\ pc = "main"
  /\ ~TooManyArguments(argc)
  /\ out' = out \o EnvDump(environ)
  /\ pc' = "main_ld"
  /\ UNCHANGED <<inputs, environ, log, last, frame, ret, k8s, version, versions>>

\* if FLAGS.subprocess_ld_path: print(...); os.environ["LD_LIBRARY_PATH"] = ...
main_set_ld_path ==
  /\ pc = "main_ld"
  /\ IF LdPathGiven(subprocess_ld_path)
     THEN /\ out' = Append(out, Line("set_ld", "LD_LIBRARY_PATH", subprocess_ld_path))
          /\ environ' = SetItem(environ, "LD_LIBRARY_PATH", subprocess_ld_path)
          /\ log' = Append(log, Event("setenv", "LD_LIBRARY_PATH", ""))
     ELSE UNCHANGED <<out, environ, log>>
  /\ pc' = "gke"
  /\ UNCHANGED <<inputs, last, frame, ret, k8s, version, versions>>

\* version = get_gke_version(); the line printed for it
main_gke_version ==
  /\ pc = "gke_ret"
  /\ version' = ret
  /\ out' = Append(out, IF Truthy(ret)
                        THEN Line("gke_version", "Detected Kubernetes version:", ret)
                        ELSE Line("gke_failed", "Failed to detect Kubernetes version.", <<>>))
  /\ pc' = "driver"
  /\ UNCHANGED <<inputs, environ, log, last, frame, ret, k8s, versions>>

\* ------------------------------------------------------------ specifications

PathSet == {nccl_h_paths[k] : k \in 1..Len(nccl_h_paths)}

\* values of the option: not given, given empty, given
FlagValues == {None, <<>>, <<"/opt/nvidia/lib64">>}

\* environments the process may start in: each variable unset or set, the
\* variables that are set in either order
StartEnvs ==
  UNION {{[LD_LIBRARY_PATH |-> ld, NCCL_VERSION |-> nccl, order |-> o] :
            o \in Orders({"LD_LIBRARY_PATH" : x \in {ld} \ {None}}
                         \cup {"NCCL_VERSION" : x \in {nccl} \ {None}})} :
         ld \in {None, <<"/usr/lib">>},
         nccl \in {None, <<>>, <<"5", ".", "5">>}}

\* outputs drawn for each command when the whole program runs
RunSmiTexts == {<<>>, <<"5", ".", "5", "\n">>}
RunProcTexts == {<<"x">>, <<KernelModule, " ", " ", "5", ".", "5", " ", "x">>}
RunCudaFileTexts == {<<"x">>, <<CudaVersionMarker, " ", "5", ".", "5">>}
RunNvccTexts == {<<>>, <<"x", ReleaseMarker, " ", "5", ".", "5", "x">>}
RunFieldTexts == {<<"5">>}

\* outputs drawn when a probe is exercised alone
SmiTexts == TextsUpTo(BaseAlphabet, MaxLen)
ProcTexts == TextsUpTo(BaseAlphabet \cup {KernelModule}, MaxLen)
CudaFileTexts == TextsUpTo(BaseAlphabet \cup {CudaVersionMarker}, MaxLen)
NvccTexts == TextsUpTo(BaseAlphabet \cup {ReleaseMarker}, MaxLen)
FieldTexts == TextsUpTo(BaseAlphabet, MaxFieldLen)

InitCommon ==
  /\ KUBERNETES_INSTALLED \in BOOLEAN
  /\ exists \in [PathSet -> BOOLEAN]
  /\ env0 \in StartEnvs
  /\ environ = env0
  /\ out = <<>>
  /\ log = <<>>
  /\ last = NoCall
  /\ frame = EmptyFrame
  /\ ret = None
  /\ k8s = [load |-> "", get |-> "", git_version |-> None]
  /\ version = None
  /\ versions = <<>>

\* the process as app.run(main) starts it
Init ==
  /\ pc = "main"
  /\ argc \in 1..MaxArgc
  /\ subprocess_ld_path \in FlagValues
  /\ InitCommon

Next ==
  \/ main_usage_error
  \/ main_env_dump
  \/ main_set_ld_path
  \/ get_gke_version_not_installed
  \/ get_gke_version_load_config
  \/ get_gke_version_get_code
  \/ main_gke_version
  \/ get_nvidia_driver_version_query(RunSmiTexts)
  \/ get_nvidia_driver_version_fallback(RunProcTexts)
  \/ detect_gpu_libraries_driver
  \/ get_cuda_version_file(RunCudaFileTexts)
  \/ get_cuda_version_nvcc(RunNvccTexts)
  \/ detect_gpu_libraries_cuda
  \/ get_nccl_version_env
  \/ get_nccl_version_exists
  \/ get_nccl_version_exhausted
  \/ get_nccl_version_major(RunFieldTexts)
  \/ get_nccl_version_minor(RunFieldTexts)
  \/ get_nccl_version_patch(RunFieldTexts)
  \/ detect_gpu_libraries_nccl
  \/ detect_gpu_libraries_print

Spec == Init /\ [][Next]_vars

\* one probe called on its own, as a unit test calls it
InitProbes ==
  /\ pc \in {"driver", "cuda", "nccl"}
  /\ argc = 1
  /\ subprocess_ld_path = None
  /\ InitCommon
  /\ KUBERNETES_INSTALLED
  /\ env0.LD_LIBRARY_PATH = None
  /\ pc # "nccl" => env0.NCCL_VERSION = None /\ \A p \in PathSet : ~exists[p]

NextProbes ==
  \/ get_nvidia_driver_version_query(SmiTexts)
  \/ get_nvidia_driver_version_fallback(ProcTexts)
  \/ get_cuda_version_file(CudaFileTexts)
  \/ get_cuda_version_nvcc(NvccTexts)
  \/ get_nccl_version_env
  \/ get_nccl_version_exists
  \/ get_nccl_version_exhausted
  \/ get_nccl_version_major(FieldTexts)
  \/ get_nccl_version_minor(FieldTexts)
  \/ get_nccl_version_patch(FieldTexts)

SpecProbes == InitProbes /\ [][NextProbes]_vars

\* ------------------------------------------------------- history predicates

\* a subprocess running cmd was spawned
Spawned(cmd) == \E k \in 1..Len(log) : log[k].ev = "spawn" /\ log[k].what = cmd

\* something was done with candidate header path p (tested or read)
Touched(p) == \E k \in 1..Len(log) : log[k].path = p

\* the local variable that received the result of the last run_command call
LastValue ==
  IF last.cmd = SmiCmd THEN frame.version
  ELSE IF last.cmd = GrepMajorCmd THEN frame.major
  ELSE IF last.cmd = GrepMinorCmd THEN frame.minor
  ELSE IF last.cmd = GrepPatchCmd THEN frame.patch
  ELSE frame.version_text

\* v is t without its leading and trailing whitespace
IsTrimOf(v, t) ==
  \E i \in 1..(Len(t) + 1), j \in 0..Len(t) :
    /\ i <= j + 1
    /\ v = SubSeq(t, i, j)
    /\ \A k \in 1..(i - 1) : IsSpace(t[k])
    /\ \A k \in (j + 1)..Len(t) : IsSpace(t[k])
    /\ v # <<>> => ~IsSpace(v[1]) /\ ~IsSpace(v[Len(v)])

\* the pattern  marker \s+ ([\d.]+)  matches in t with the marker at i, the
\* number from j to k
PatternAt(marker, t, i, j, k) ==
  /\ 1 <= i /\ i + 1 < j /\ j <= k /\ k <= Len(t)
  /\ t[i] = marker
  /\ \A m \in (i + 1)..(j - 1) : IsSpace(t[m])
  /\ \A m \in j..k : IsNumChar(t[m])
  /\ k = Len(t) \/ ~IsNumChar(t[k + 1])

PatternFound(marker, t) ==
  /\ Truthy(t)
  /\ \E i, j, k \in 1..Len(t) : PatternAt(marker, t, i, j, k)

\* v is the number of the leftmost match of the pattern in t
Extracted(marker, t, v) ==
  \E i, j, k \in 1..Len(t) :
    /\ PatternAt(marker, t, i, j, k)
    /\ v = SubSeq(t, j, k)
    /\ \A i2 \in 1..(i - 1) : \A j2, k2 \in 1..Len(t) : ~PatternAt(marker, t, i2, j2, k2)

\* ----------------------------------------------------------------------- C3

\* the last run_command call ended in one of the three failures named by the
\* claim: nonzero exit status, time bound exceeded, no shell to be found
NamedFailure ==
  \/ last.outcome.shell = "missing"
  \/ last.outcome.shell = "ok" /\ last.outcome.secs > TimeoutSecs
  \/ last.outcome.shell = "ok" /\ last.outcome.exit # 0

\* the last command was started, ended within the time bound and its exit
\* status was zero
EndedWell ==
  /\ last.outcome.shell = "ok"
  /\ last.outcome.secs <= TimeoutSecs
  /\ last.outcome.exit = 0

\* C3: run_command returns the captured output with the surrounding
\* whitespace trimmed exactly when the command ended with exit status zero
\* within the time bound; on a nonzero exit status, a timeout or a missing
\* shell it returns None; and no failure is propagated to the caller (the
\* caller is never unwound).
C3_RunCommandContract ==
  /\ pc # "crashed"
  /\ (last.cmd # "" /\ pc # "crashed") =>
       /\ EndedWell => LastValue # None /\ IsTrimOf(LastValue, last.outcome.stdout)
       /\ NamedFailure => LastValue = None
       /\ LastValue # None => EndedWell

\* the failing input: the command exits with status 1 (one of the failures
\* the claim names) having printed a byte that is not valid UTF-8, and the
\* UnicodeDecodeError leaves run_command and the probe
C3_Witness ==
  /\ pc = "crashed"
  /\ last.cmd = SmiCmd
  /\ last.outcome.shell = "ok" /\ last.outcome.exit = 1
  /\ last.outcome.secs <= TimeoutSecs
  /\ ~Decodable(last.outcome.stdout)

\* ----------------------------------------------------------------------- C5

ProbeReturned == pc \in {"driver_ret", "cuda_ret", "nccl_ret"}

OnlyNumChars(t) == \A k \in 1..Len(t) : IsNumChar(t[k])

\* a non-empty dotted sequence of numbers: digits and single dots between them
WellFormedVersion(t) ==
  /\ t # <<>>
  /\ OnlyNumChars(t)
  /\ t[1] # "." /\ t[Len(t)] # "."
  /\ \A k \in 1..(Len(t) - 1) : ~(t[k] = "." /\ t[k + 1] = ".")

\* C5 as stated: whatever the commands print and NCCL_VERSION holds, a probe
\* returns None or a well-formed dotted version number.
C5_AlwaysWellFormed == ProbeReturned => ret = None \/ WellFormedVersion(ret)

\* C5 as amended: a probe returns None or a non-empty text; a value extracted
\* by one of the patterns (the driver's kernel-module fallback, both CUDA
\* strategies) is a non-empty run of digits and dots, which may be a lone dot
\* or begin or end with one; the query tool's output, NCCL_VERSION and the
\* header fields are passed on as they are, whatever text they hold.
C5_NonEmptyOrAbsent ==
  /\ ProbeReturned => ret = None \/ ret # <<>>
  /\ (pc = "driver_ret" /\ Spawned(ProcCmd)) \/ pc = "cuda_ret"
       => ret = None \/ OnlyNumChars(ret)
  /\ (pc = "driver_ret" /\ ~Spawned(ProcCmd)) => ret = frame.version
  /\ (pc = "nccl_ret" /\ Truthy(environ.NCCL_VERSION)) => ret = environ.NCCL_VERSION

\* a pattern extracted a lone dot
C5_Witness == pc = "cuda_ret" /\ Spawned(NvccCmd) /\ ret = <<".">>

\* ----------------------------------------------------------------------- C6

\* one step of a probe obeys "first success wins"
C6_Step ==
  /\ (pc = "driver" /\ pc' # "crashed" /\ Truthy(frame'.version))
       => /\ pc' = "driver_ret"
          /\ ret' = frame'.version
          /\ ~Spawned(ProcCmd)'
  /\ (pc = "cuda" /\ pc' # "crashed" /\ Truthy(frame'.version_text)
      /\ \E i \in 1..Len(frame'.version_text) :
           MatchAt(CudaVersionMarker, frame'.version_text, i))
       => /\ pc' = "cuda_ret"
          /\ Extracted(CudaVersionMarker, frame'.version_text, ret')
          /\ ~Spawned(NvccCmd)'
  /\ (pc = "nccl" /\ Truthy(environ.NCCL_VERSION))
       => /\ pc' = "nccl_ret"
          /\ ret' = environ.NCCL_VERSION
          /\ log' = log

\* C6: the first strategy that yields a value ends the probe with that value:
\* a non-empty query-tool output is returned as it is, with the query the only
\* subprocess spawned; a version matched in the toolkit version file is
\* returned with that read the only subprocess spawned; a non-empty
\* NCCL_VERSION is returned with no path tested and no subprocess spawned.
C6_FirstSuccessWins == [][C6_Step]_vars

\* NCCL_VERSION was returned although both header files exist
C6_Witness ==
  /\ pc = "nccl_ret"
  /\ ret = <<"5", ".", "5">>
  /\ \A p \in PathSet : exists[p]
  /\ log = <<>>

\* ----------------------------------------------------------------------- C7

\* C7: in the driver and CUDA probes, when the first strategy does not
\* succeed (command failed, empty output, pattern not found) the second is
\* attempted; if its pattern matches, the extracted number is returned; the
\* probe returns None exactly when both strategies fail.  (The first and the
\* fourth conjunct say that the second command follows a first strategy that
\* gave nothing; the others say what is returned.)
C7_SecondStrategy ==
  /\ (Spawned(SmiCmd) /\ ~Truthy(frame.version))
       => pc = "driver_proc" \/ (pc = "driver_ret" /\ Spawned(ProcCmd))
  /\ (pc = "driver_ret" /\ ~Truthy(frame.version))
       => IF PatternFound(KernelModule, frame.version_text)
          THEN Extracted(KernelModule, frame.version_text, ret)
          ELSE ret = None
  /\ (pc = "driver_ret" /\ Truthy(frame.version)) => ret # None
  /\ (Spawned(CudaFileCmd) /\ ~Spawned(NvccCmd)
      /\ ~PatternFound(CudaVersionMarker, frame.version_text))
       => pc = "cuda_nvcc"
  /\ (pc = "cuda_ret" /\ Spawned(NvccCmd))
       => IF PatternFound(ReleaseMarker, frame.version_text)
          THEN Extracted(ReleaseMarker, frame.version_text, ret)
          ELSE ret = None
  /\ (pc = "cuda_ret" /\ ~Spawned(NvccCmd)) => ret # None

\* the failing input: the shell cannot be executed, so the query tool's
\* command fails; the PermissionError leaves run_command and the driver probe,
\* and the kernel-module status file is never read
C7_Witness ==
  /\ pc = "crashed"
  /\ last.cmd = SmiCmd
  /\ last.outcome.shell = "not executable"
  /\ ~Spawned(ProcCmd)

\* ----------------------------------------------------------------------- C8

\* C8 as stated: once an earlier candidate header path exists, no later
\* candidate path is tested or read.
C8_LaterNeverRead ==
  \A a, b \in 1..Len(nccl_h_paths) :
    (a < b /\ exists[nccl_h_paths[a]]) => ~Touched(nccl_h_paths[b])

\* the candidate header the frame's major, minor, patch were extracted from
\* yields a result: at least MAJOR and MINOR
FrameYields == Truthy(frame.major) /\ Truthy(frame.minor)

\* one step of get_nccl_version takes the candidates in order and stops at
\* the first that yields a result
C8_Step ==
  /\ (pc = "nccl" /\ pc' = "nccl_loop")
       => ~Truthy(environ.NCCL_VERSION) /\ frame'.i = 1 /\ log' = log
  /\ (pc = "nccl_loop" /\ pc' # "nccl_ret")
       => /\ log' = Append(log, Event("exists", "os.path.exists", nccl_h_paths[frame.i]))
          /\ frame.i > 1 /\ exists[nccl_h_paths[frame.i - 1]] => ~FrameYields
          /\ pc' = "nccl_major" <=> exists[nccl_h_paths[frame.i]]
  /\ (pc \in {"nccl_major", "nccl_minor", "nccl_patch"})
       => /\ exists[nccl_h_paths[frame.i]]
          /\ log'[Len(log')].path = nccl_h_paths[frame.i]
  /\ (pc = "nccl_patch" /\ pc' # "crashed")
       => IF FrameYields'
          THEN /\ pc' = "nccl_ret" /\ frame'.i = frame.i /\ ret' # None
               /\ SubSeq(ret', 1, Len(frame'.major) + 1 + Len(frame'.minor))
                    = frame'.major \o <<".">> \o frame'.minor
          ELSE pc' = "nccl_loop" /\ frame'.i = frame.i + 1

\* C8 as amended: with NCCL_VERSION unset or empty the candidate paths are
\* taken in list order and a path is read only if it exists; a later
\* candidate is tested or read only when every earlier one is missing or its
\* extractions returned without both MAJOR and MINOR, never after an earlier
\* one has given both; a value returned from the headers is formed from the
\* first existing candidate that gave both.
C8_FirstYieldingCandidate == [][C8_Step]_vars

\* the first candidate exists but yields nothing; the result comes from the
\* second
C8_Witness ==
  /\ pc = "nccl_ret"
  /\ exists[nccl_h_paths[1]]
  /\ frame.i = 2
  /\ ret = <<"5", ".", "x">>

\* ----------------------------------------------------------------------- C9

\* C9: with NCCL_VERSION unset (or empty), a header file with MAJOR, MINOR and
\* PATCH gives "MAJOR.MINOR.PATCH"; with MAJOR and MINOR but no PATCH it gives
\* "MAJOR.MINOR"; with MAJOR or MINOR missing it gives no result whatever
\* PATCH is; and when no candidate gives a result, or none exists, the probe
\* returns None.  (Last conjunct: whatever an extraction gives, the probe goes
\* on to the next field, to the next candidate or to its return.)
C9_HeaderFields ==
  /\ (pc = "nccl_ret" /\ ~Truthy(environ.NCCL_VERSION))
       => IF frame.i <= Len(nccl_h_paths)
          THEN /\ exists[nccl_h_paths[frame.i]]
               /\ frame.major # None /\ frame.major # <<>>
               /\ frame.minor # None /\ frame.minor # <<>>
               /\ ret = IF frame.patch # None /\ frame.patch # <<>>
                        THEN frame.major \o <<".">> \o frame.minor \o <<".">> \o frame.patch
                        ELSE frame.major \o <<".">> \o frame.minor
          ELSE ret = None
  /\ (pc = "nccl_loop" /\ frame.i > 1 /\ exists[nccl_h_paths[frame.i - 1]])
       => frame.major \in {None, <<>>} \/ frame.minor \in {None, <<>>}
  /\ (pc = "nccl_loop" /\ frame.i > 1 /\ ~exists[nccl_h_paths[frame.i - 1]]
      /\ \A k \in 1..(frame.i - 1) : ~exists[nccl_h_paths[k]])
       => log # <<>> /\ \A k \in 1..Len(log) : log[k].ev = "exists"
  /\ last.cmd \in {GrepMajorCmd, GrepMinorCmd, GrepPatchCmd}
       => pc \in {"nccl_minor", "nccl_patch", "nccl_loop", "nccl_ret"}

\* the failing input: the only header that exists has a MAJOR field that is
\* not valid UTF-8; no candidate yields MAJOR and MINOR, and the probe is
\* unwound by the UnicodeDecodeError instead of returning None
C9_Witness ==
  /\ pc = "crashed"
  /\ environ.NCCL_VERSION = None
  /\ last.cmd = GrepMajorCmd
  /\ last.outcome.shell = "ok" /\ last.outcome.exit = 0
  /\ ~Decodable(last.outcome.stdout)
  /\ \A k \in 1..Len(nccl_h_paths) : exists[nccl_h_paths[k]] <=> k = 1

\* ----------------------------------------------------------------------- C1

\* the indices of the printed lines with one of the given tags
LinesTagged(tags) == {k \in 1..Len(out) : out[k].tag \in tags}

\* the variables set at startup
SetAtStart == KeysSet(env0)

\* what a report entry shows for a probe that returned v
Shown(v) == IF v = None THEN NotFound ELSE v

\* the complete report: the environment dump (header, one NAME=VALUE line per
\* variable that is set, footer), then exactly one control-plane line, then
\* the GPU block with its three labelled entries in order, as the last lines
ReportComplete ==
  LET n == Len(out)
      f == Cardinality(SetAtStart) + 2
  IN  /\ n >= f + 5
      /\ out[1].tag = "env_header"
      /\ out[f].tag = "env_footer"
      /\ \A k \in 2..(f - 1) :
           /\ out[k].tag = "env"
           /\ out[k].key = env0.order[k - 1]
           /\ env0[out[k].key] # None /\ out[k].val = env0[out[k].key]
           /\ \A m \in 2..(k - 1) : out[m].key # out[k].key
      /\ Cardinality(LinesTagged({"gke_version", "gke_failed"})) = 1
      /\ out[n - 4].tag \in {"gke_version", "gke_failed"}
      /\ out[n - 4].tag = "gke_version" => out[n - 4].val = k8s.git_version
      /\ \A k \in (f + 1)..(n - 5) : out[k].tag = "set_ld"
      /\ out[n - 3].tag = "gpu_header"
      /\ out[n - 2] = Line("lib", "NVIDIA Driver", versions[1].version)
      /\ out[n - 1] = Line("lib", "CUDA", versions[2].version)
      /\ out[n] = Line("lib", "NCCL", versions[3].version)
      /\ Cardinality(LinesTagged({"lib"})) = 3

\* each entry of the report is the value its probe returned, or "Not found"
\* when the probe returned None
EntriesAreProbeValues ==
  /\ pc = "cuda" => Len(versions) = 1 /\ versions[1].version = Shown(ret)
  /\ pc = "nccl" => Len(versions) = 2 /\ versions[2].version = Shown(ret)
  /\ pc = "gpu_print" => Len(versions) = 3 /\ versions[3].version = Shown(ret)
  /\ \A k \in 1..Len(versions) : versions[k].version # <<>>

\* the run is over: no statement is left to execute
Ended == ~ENABLED Next

\* C1: a run started without extraneous arguments ends normally, whatever
\* the control-plane query and the external commands do, having printed the
\* environment dump, one control-plane line and the GPU block with the three
\* entries NVIDIA Driver, CUDA, NCCL, each the probe's value or "Not found".
\* (A run is finite, so "ends normally with the report" is: wherever it can
\* go no further, it is at the end of main with the complete report.)
C1_CompleteReport ==
  /\ EntriesAreProbeValues
  /\ pc = "done" => ReportComplete
  /\ (~TooManyArguments(argc) /\ Ended) => pc = "done"

\* the failing input: no extraneous argument, the dump and the control-plane
\* line are printed, then nvidia-smi exits 0 with output that is not valid
\* UTF-8 and the run dies without the GPU block
C1_Witness ==
  /\ pc = "crashed"
  /\ argc = 1
  /\ last.cmd = SmiCmd
  /\ last.outcome.shell = "ok" /\ last.outcome.exit = 0
  /\ last.outcome.secs <= TimeoutSecs
  /\ ~Decodable(last.outcome.stdout)
  /\ LinesTagged({"gke_version", "gke_failed"}) # {}
  /\ LinesTagged({"lib"}) = {}

\* ----------------------------------------------------------------------- C2

\* C2: with extraneous arguments main raises the usage error before it
\* prints, probes, assigns or spawns anything; and no run without extraneous
\* arguments ends in an abort.
C2_UsageErrorOnly ==
  /\ argc > 1 =>
       /\ pc \in {"main", "usage_error"}
       /\ out = <<>> /\ log = <<>> /\ environ = env0
       /\ last = NoCall /\ k8s.load = ""
  /\ pc \in {"usage_error", "crashed"} => argc > 1

\* the failing input: no extraneous argument, and the run is aborted in the
\* CUDA probe (the toolkit version file is not valid UTF-8) with the
\* report cut short after the control-plane line
C2_Witness ==
  /\ pc = "crashed"
  /\ argc = 1
  /\ last.cmd = CudaFileCmd
  /\ ~Decodable(last.outcome.stdout)
  /\ LinesTagged({"lib"}) = {}

\* ----------------------------------------------------------------------- C4

\* main is past "version = get_gke_version()" and its print
PastGke ==
  pc \notin {"main", "main_ld", "usage_error", "gke", "gke_get", "gke_ret"}

\* C4: get_gke_version returns the reported version only when the library is
\* there and both the credential loading and the version request succeed; it
\* returns None when the library is missing, the loading fails, the request
\* fails or anything else is raised, and never lets an exception out; after a
\* None main prints the failure line and goes on to the GPU probes.
C4_GkeNeverRaises ==
  /\ pc = "gke_ret" =>
       IF KUBERNETES_INSTALLED /\ k8s.load = "ok" /\ k8s.get = "ok"
       THEN ret = k8s.git_version /\ ret # None
       ELSE ret = None
  /\ pc = "gke_get" => KUBERNETES_INSTALLED /\ k8s.load = "ok"
  /\ pc = "crashed" => \E k \in 1..Len(log) : log[k].ev = "spawn"
  /\ (PastGke /\ version = None)
       => /\ LinesTagged({"gke_failed"}) # {}
          /\ LinesTagged({"gke_version"}) = {}
  /\ (pc = "driver" /\ version = None) => out[Len(out)].tag = "gke_failed"

\* credential loading failed; the failure line is printed and the driver
\* probe is next
C4_Witness ==
  /\ pc = "driver"
  /\ k8s.load = "ConfigException"
  /\ version = None
  /\ out[Len(out)].tag = "gke_failed"

\* ---------------------------------------------------------------------- C10

\* the environment every subprocess of the run must be given
ExpectedEnv ==
  IF subprocess_ld_path # None /\ subprocess_ld_path # <<>>
  THEN [LD_LIBRARY_PATH |-> subprocess_ld_path, NCCL_VERSION |-> env0.NCCL_VERSION,
        order |-> IF env0.LD_LIBRARY_PATH # None THEN env0.order
                  ELSE Append(env0.order, "LD_LIBRARY_PATH")]
  ELSE env0

Assignments == {k \in 1..Len(log) : log[k].ev = "setenv"}

\* C10: os.environ is assigned at most once in a run and only at
\* LD_LIBRARY_PATH; with the option given (non-empty) the assignment precedes
\* the control-plane query and every subprocess, so each subprocess gets
\* LD_LIBRARY_PATH equal to the option; without it every subprocess gets the
\* environment the process started with.
C10_EnvironAssignedOnce ==
  /\ Cardinality(Assignments) <= 1
  /\ \A k \in Assignments : log[k].what = "LD_LIBRARY_PATH" /\ k = 1
  /\ environ = IF Assignments # {} THEN ExpectedEnv ELSE env0
  /\ environ.NCCL_VERSION = env0.NCCL_VERSION
  /\ \A k \in 1..Len(log) :
       log[k].ev \in {"spawn", "k8s"} => log[k].env = ExpectedEnv
  /\ (subprocess_ld_path = None \/ subprocess_ld_path = <<>>) => Assignments = {}

\* the option is given, LD_LIBRARY_PATH was set differently at startup, and a
\* header extraction late in the run is spawned with the option's value
C10_Witness ==
  /\ subprocess_ld_path = <<"/opt/nvidia/lib64">>
  /\ env0.LD_LIBRARY_PATH = <<"/usr/lib">>
  /\ pc = "nccl_minor"
  /\ log[Len(log)].ev = "spawn"
  /\ log[Len(log)].env.LD_LIBRARY_PATH = subprocess_ld_path

====
